---- MODULE Spec2Model ----
(***************************************************************************)
(* Overlap-graph genome assembler (strands_graph.py): the trie used for    *)
(* suffix-prefix matching (TrieNode.insert_strand, TrieNode.search), the   *)
(* graph construction (Graph.load_from_strands) and the greedy traversal   *)
(* (Graph.get_sequenced_result).                                           *)
(*                                                                         *)
(* A strand is a sequence of one-character strings.  A trie node is named  *)
(* by the path of characters leading to it from the root (the root is the  *)
(* empty path); Vertex objects are numbered in the order they are created. *)
(***************************************************************************)
EXTENDS Integers, Sequences, FiniteSets, TLC

VARIABLES
    strands,                \* load_from_strands argument: the list of reads
    allow_mis_matches,      \* load_from_strands argument
    trie,                   \* path -> [count, extra] of every TrieNode
    heap,                   \* every Vertex object created: [sequence, connected_vertices]
    vertices,               \* Graph.vertices: the registered vertices, in insertion order
    pc,                     \* position of the run
    si,                     \* loop of line 152: strands already inserted
    li,                     \* loop of line 159: vertices already linked
    min_overlap,            \* get_sequenced_result argument
    in_coming_links_min,    \* get_sequenced_result argument
    incoming_links_values,  \* line 172: vertex -> summed incoming overlap
    oi,                     \* loop of line 180: origins already considered
    current,                \* line 184
    sequence,               \* line 185
    walk_i,                 \* line 186: the counter i of the walk
    max_seq,                \* line 178
    query,                  \* argument of a direct TrieNode.search call
    found                   \* its result

vars == <<strands, allow_mis_matches, trie, heap, vertices, pc, si, li,
          min_overlap, in_coming_links_min, incoming_links_values, oi,
          current, sequence, walk_i, max_seq, query, found>>

asmVars == <<min_overlap, in_coming_links_min, incoming_links_values, oi,
             current, sequence, walk_i, max_seq>>

(***************************************************************************)
(* Bounds of the model.                                                    *)
(***************************************************************************)
MaxReads == 3       \* reads per collection, build-only specifications
MaxLen == 2         \* length of a generated read
MaxMis == 1         \* largest allow_mis_matches
MaxScnReads == 4    \* reads per collection, full pipeline

(***************************************************************************)
(* Values.                                                                 *)
(***************************************************************************)
None == 0           \* Python None, where a Vertex is expected
Raised == -1        \* an AttributeError propagating out of search

\* The characters search substitutes, in the order of line 127.
Symbols == <<"A", "C", "G", "T">>

\* The attributes A, C, G, T every TrieNode has (lines 48-51).
SymbolSet == {Symbols[j] : j \in 1..Len(Symbols)}

\* Vertex.__init__
Vertex(s) == [sequence |-> s, connected_vertices |-> <<>>]

\* TrieNode.__init__
TrieNode(extra, count) == [count |-> count, extra |-> extra]

EmptyTrie == (<<>> :> TrieNode(None, 0))

(***************************************************************************)
(* TrieNode.insert_strand, called on node p of trie T with heap H.         *)
(* Returns the new trie and heap, the returned vertex (or None) and        *)
(* whether getattr raised AttributeError.                                  *)
(***************************************************************************)
\* getattr(node, c) of line 105 and line 123: the child, None, or an error
\* for a name that is no attribute of the node.
HasChild(T, p, c) == Append(p, c) \in DOMAIN T

NoAttribute(T, p, c) == ~HasChild(T, p, c) /\ c \notin SymbolSet

\* Lines 107-112: the chain of fresh nodes below p spelling strand.
Chain(p, strand, extra) ==
    [q \in {p \o SubSeq(strand, 1, j) : j \in 1..Len(strand)} |-> TrieNode(extra, 1)]

RECURSIVE insert_strand(_, _, _, _, _, _)
insert_strand(T, H, p, strand, extra, new_extra) ==
    LET T1 == [T EXCEPT ![p].count = @ + 1]
        fresh == T1[p].extra = None
        H1 == IF fresh /\ extra = None THEN Append(H, Vertex(strand)) ELSE H
        e1 == IF ~fresh THEN T1[p].extra
              ELSE IF extra # None THEN extra ELSE Len(H1)
        T2 == [T1 EXCEPT ![p].extra = e1]
        ne == new_extra \/ fresh
    IN  IF strand = <<>>
        THEN [trie |-> T2, heap |-> H1, ret |-> IF ne THEN e1 ELSE None,
              raised |-> FALSE]
        ELSE LET first_char == Head(strand) IN
             IF NoAttribute(T2, p, first_char)
             THEN [trie |-> T2, heap |-> H1, ret |-> None, raised |-> TRUE]
             ELSE IF ~HasChild(T2, p, first_char)
             THEN LET H2 == IF ne THEN H1 ELSE Append(H1, Vertex(strand))
                      ex == IF ne THEN e1 ELSE Len(H2)
                  IN  [trie |-> Chain(p, strand, ex) @@ T2, heap |-> H2,
                       ret |-> ex, raised |-> FALSE]
             ELSE insert_strand(T2, H1, Append(p, first_char), Tail(strand),
                                IF ne THEN e1 ELSE None, ne)

(***************************************************************************)
(* TrieNode.search, called on node p: a vertex, None, or Raised.           *)
(***************************************************************************)
\* Mutant: the budget test is off by one, so one more substitution is tried.
BudgetSpent_OffByOne(k) == k < 0

\* Line 125: no budget left.
BudgetSpent(k) == k = 0

\* Mutant: the node's anchored vertex is answered instead of None.
NoMatch_Anchor(T, p) == T[p].extra

\* Line 126: the answer at node p when the next symbol has no child and no
\* budget is left.
NoMatch(T, p) == None

RECURSIVE search(_, _, _, _)
RECURSIVE TrySymbols(_, _, _, _, _)
\* Lines 127-131: the substitutions, in order, the first answer wins.
TrySymbols(T, p, rest, k, j) ==
    IF j > Len(Symbols) THEN None
    ELSE LET extra == search(T, p, <<Symbols[j]>> \o rest, k - 1)
         IN  IF extra # None THEN extra ELSE TrySymbols(T, p, rest, k, j + 1)

search(T, p, strand, k) ==
    IF strand = <<>> THEN T[p].extra
    ELSE LET char == Head(strand) IN
         IF HasChild(T, p, char) THEN search(T, Append(p, char), Tail(strand), k)
         ELSE IF NoAttribute(T, p, char) THEN Raised
         ELSE IF BudgetSpent(k) THEN NoMatch(T, p)
         ELSE TrySymbols(T, p, Tail(strand), k, 1)

(***************************************************************************)
(* Graph.load_from_strands.                                                *)
(***************************************************************************)
\* int(math.log(n, 4)) for n >= 1.
RECURSIVE IntLog4(_)
IntLog4(n) == IF n < 4 THEN 0 ELSE 1 + IntLog4(n \div 4)

\* Mutant: the window forgets the logarithm of the number of reads.
SearchRange_NoLog(len, n) == 1..(len - 1)

\* Line 160: range(1, len(sequence) - 2 * int(math.log(len(strands), 4)))
SearchRange(len, n) == 1..(len - 2 * IntLog4(n) - 1)

\* Line 161: sequence[i:]
Suffix(s, i) == SubSeq(s, i + 1, Len(s))

\* Mutant: the overlap length is off by one.
OverlapLen_OffByOne(len, i) == len - i + 1

\* Line 165: the recorded overlap length
OverlapLen(len, i) == len - i

\* Line 164: the match is kept
IsMatch(match, vertex) == match # None /\ match # vertex

\* Lines 160-166 for one vertex: the result of the scan from offset i on:
\* the edges appended to the vertex, and whether search raised.
RECURSIVE ScanOffsets(_, _, _, _, _, _)
ScanOffsets(T, H, vertex, k, n, i) ==
    LET s == H[vertex].sequence IN
    IF i \notin SearchRange(Len(s), n) THEN [edges |-> <<>>, raised |-> FALSE]
    ELSE LET match == search(T, <<>>, Suffix(s, i), k) IN
         IF match = Raised THEN [edges |-> <<>>, raised |-> TRUE]
         ELSE IF IsMatch(match, vertex)
         THEN [edges |-> <<(<<match, OverlapLen(Len(s), i)>>)>>, raised |-> FALSE]
         ELSE ScanOffsets(T, H, vertex, k, n, i + 1)

(***************************************************************************)
(* Inputs.                                                                 *)
(***************************************************************************)
RECURSIVE StringsOfLen(_, _)
StringsOfLen(S, n) ==
    IF n = 0 THEN {<<>>}
    ELSE {Append(s, c) : s \in StringsOfLen(S, n - 1), c \in S}

StringsUpTo(S, lo, hi) == UNION {StringsOfLen(S, n) : n \in lo..hi}

\* The reads of the build-only specifications: every string of 1..MaxLen
\* characters over two of the four symbols.
ReadPool == StringsUpTo({"A", "C"}, 1, MaxLen)

Lists(pool, n) == StringsUpTo(pool, 0, n)

InitCommon ==
    /\ trie = EmptyTrie
    /\ heap = <<>>
    /\ vertices = <<>>
    /\ pc = "insert"
    /\ si = 0
    /\ li = 0
    /\ min_overlap = 0
    /\ in_coming_links_min = 0
    /\ incoming_links_values = <<>>
    /\ oi = 0
    /\ current = None
    /\ sequence = <<>>
    /\ walk_i = 0
    /\ max_seq = <<>>
    /\ query = <<>>
    /\ found = None

InitBuild ==
    /\ strands \in Lists(ReadPool, MaxReads)
    /\ allow_mis_matches \in 0..MaxMis
    /\ InitCommon

(***************************************************************************)
(* Lines 152-157: one iteration of the insertion loop.                     *)
(***************************************************************************)
Insert ==
    /\ pc = "insert"
    /\ si < Len(strands)
    /\ LET strand == strands[si + 1]
           r == insert_strand(trie, heap, <<>>, strand, None, FALSE)
       IN  /\ trie' = r.trie
           /\ si' = si + 1
           /\ IF r.raised
              THEN /\ pc' = "raised"
                   /\ heap' = r.heap
                   /\ vertices' = vertices
              ELSE /\ pc' = "insert"
                   /\ IF r.ret # None
                      THEN /\ heap' = [r.heap EXCEPT ![r.ret].sequence = strand]
                           /\ vertices' = Append(vertices, r.ret)
                      ELSE /\ heap' = r.heap
                           /\ vertices' = vertices
    /\ UNCHANGED <<strands, allow_mis_matches, li, asmVars, query, found>>

\* The insertion loop is over: the loop of line 159 starts.
StartLink ==
    /\ pc = "insert"
    /\ si = Len(strands)
    /\ pc' = "link"
    /\ UNCHANGED <<strands, allow_mis_matches, trie, heap, vertices, si, li,
                   asmVars, query, found>>

(***************************************************************************)
(* Lines 159-166: one iteration of the loop over the vertices.             *)
(***************************************************************************)
Link ==
    /\ pc = "link"
    /\ li < Len(vertices)
    /\ LET vertex == vertices[li + 1]
           r == ScanOffsets(trie, heap, vertex, allow_mis_matches, Len(strands), 1)
       IN  IF r.raised
           THEN /\ pc' = "raised"
                /\ heap' = heap
           ELSE /\ pc' = "link"
                /\ heap' = [heap EXCEPT ![vertex].connected_vertices = @ \o r.edges]
    /\ li' = li + 1
    /\ UNCHANGED <<strands, allow_mis_matches, trie, vertices, si, asmVars, query, found>>

\* load_from_strands returns.
Built ==
    /\ pc = "link"
    /\ li = Len(vertices)
    /\ pc' = "built"
    /\ UNCHANGED <<strands, allow_mis_matches, trie, heap, vertices, si, li,
                   asmVars, query, found>>

NextBuild == Insert \/ StartLink \/ Link \/ Built

SpecBuild == InitBuild /\ [][NextBuild]_vars

(***************************************************************************)
(* Graph.get_sequenced_result.                                             *)
(***************************************************************************)
\* Lines 175-176 for one vertex's edge list: what it adds to target v.
RECURSIVE EdgeWeightTo(_, _)
EdgeWeightTo(edges, v) ==
    IF edges = <<>> THEN 0
    ELSE (IF Head(edges)[1] = v THEN Head(edges)[2] ELSE 0) + EdgeWeightTo(Tail(edges), v)

\* Lines 174-176 over the first n registered vertices.
RECURSIVE WeightInto(_, _, _, _)
WeightInto(H, V, n, v) ==
    IF n = 0 THEN 0
    ELSE WeightInto(H, V, n - 1, v) + EdgeWeightTo(H[V[n]].connected_vertices, v)

\* Lines 172-176: the table, in the order of Graph.vertices.
IncomingLinks(H, V) == [j \in 1..Len(V) |-> WeightInto(H, V, Len(V), V[j])]

\* Mutant: an origin whose incoming weight equals the ceiling is skipped too.
TooManyIncoming_OrEqual(sum_incoming_links, ceiling) == sum_incoming_links >= ceiling

\* Line 181: the origin is skipped
TooManyIncoming(sum_incoming_links, ceiling) == sum_incoming_links > ceiling

\* Mutant: the step bound is off by one.
WalkGuard_OffByOne(edges, i, n) == edges # <<>> /\ i <= n

\* Line 187: the loop condition
WalkGuard(edges, i, n) == edges # <<>> /\ i < n

\* Line 189: the walk breaks
OverlapTooSmall(overlap_size, mo) == overlap_size < mo

\* Line 196: the walk's sequence replaces max_seq
IsLonger(seq, best) == Len(seq) > Len(best)

\* Line 176 raises KeyError for an edge whose target is no key of the table.
UnknownTarget(H, V) ==
    \E j \in 1..Len(V) : \E e \in 1..Len(H[V[j]].connected_vertices) :
        \A m \in 1..Len(V) : V[m] # H[V[j]].connected_vertices[e][1]

\* Lines 172-178: the call starts.
StartAssemble(mo, ceiling) ==
    /\ pc = "built"
    /\ min_overlap' = mo
    /\ in_coming_links_min' = ceiling
    /\ incoming_links_values' = IncomingLinks(heap, vertices)
    /\ max_seq' = <<>>
    /\ oi' = 0
    /\ pc' = IF UnknownTarget(heap, vertices) THEN "raised" ELSE "select"
    /\ UNCHANGED <<strands, allow_mis_matches, trie, heap, vertices, si, li,
                   current, sequence, walk_i, query, found>>

\* Lines 180-182: the next origin has too much incoming weight.
SkipOrigin ==
    /\ pc = "select"
    /\ oi < Len(vertices)
    /\ TooManyIncoming(incoming_links_values[oi + 1], in_coming_links_min)
    /\ oi' = oi + 1
    /\ UNCHANGED <<strands, allow_mis_matches, trie, heap, vertices, pc, si, li,
                   min_overlap, in_coming_links_min, incoming_links_values,
                   current, sequence, walk_i, max_seq, query, found>>

\* Lines 180-186: the next origin is a candidate; its walk starts.
BeginWalk ==
    /\ pc = "select"
    /\ oi < Len(vertices)
    /\ ~TooManyIncoming(incoming_links_values[oi + 1], in_coming_links_min)
    /\ current' = vertices[oi + 1]
    /\ sequence' = heap[vertices[oi + 1]].sequence
    /\ walk_i' = 0
    /\ pc' = "walking"
    /\ UNCHANGED <<strands, allow_mis_matches, trie, heap, vertices, si, li,
                   min_overlap, in_coming_links_min, incoming_links_values,
                   oi, max_seq, query, found>>

\* Lines 187-194: one iteration of the while loop that does not break.
WalkStep ==
    /\ pc = "walking"
    /\ WalkGuard(heap[current].connected_vertices, walk_i, Len(vertices))
    /\ LET next_vertex == heap[current].connected_vertices[1][1]
           overlap_size == heap[current].connected_vertices[1][2]
       IN  /\ ~OverlapTooSmall(overlap_size, min_overlap)
           /\ sequence' = sequence \o Suffix(heap[next_vertex].sequence, overlap_size)
           /\ current' = next_vertex
    /\ walk_i' = walk_i + 1
    /\ UNCHANGED <<strands, allow_mis_matches, trie, heap, vertices, pc, si, li,
                   min_overlap, in_coming_links_min, incoming_links_values,
                   oi, max_seq, query, found>>

\* Lines 187-190: the while condition fails, or the loop breaks.
StopWalk ==
    /\ pc = "walking"
    /\ \/ ~WalkGuard(heap[current].connected_vertices, walk_i, Len(vertices))
       \/ /\ WalkGuard(heap[current].connected_vertices, walk_i, Len(vertices))
          /\ OverlapTooSmall(heap[current].connected_vertices[1][2], min_overlap)
    /\ pc' = "stopped"
    /\ UNCHANGED <<strands, allow_mis_matches, trie, heap, vertices, si, li,
                   min_overlap, in_coming_links_min, incoming_links_values,
                   oi, current, sequence, walk_i, max_seq, query, found>>

\* Lines 196-197: the longest sequence so far is kept.
KeepLongest ==
    /\ pc = "stopped"
    /\ max_seq' = IF IsLonger(sequence, max_seq) THEN sequence ELSE max_seq
    /\ oi' = oi + 1
    /\ pc' = "select"
    /\ UNCHANGED <<strands, allow_mis_matches, trie, heap, vertices, si, li,
                   min_overlap, in_coming_links_min, incoming_links_values,
                   current, sequence, walk_i, query, found>>

\* Line 199: every origin has been considered; max_seq is returned.
Return ==
    /\ pc = "select"
    /\ oi = Len(vertices)
    /\ pc' = "done"
    /\ UNCHANGED <<strands, allow_mis_matches, trie, heap, vertices, si, li,
                   asmVars, query, found>>

(***************************************************************************)
(* The full pipeline of main.py lines 93-98: load_from_strands, then       *)
(* get_sequenced_result.                                                   *)
(***************************************************************************)
\* The defaults of get_sequenced_result.
DefaultMinOverlap == 7
DefaultCeiling == 40

ScenarioReads ==
    << <<"A", "C", "G", "T", "A", "C", "G", "T">>,
       <<"G", "T", "A", "C", "G", "T", "A", "C">>,
       <<"C", "G", "T", "A", "C", "G", "T", "A">> >>

PipelinePool ==
    {ScenarioReads[j] : j \in 1..Len(ScenarioReads)}
        \cup {<<"A", "C">>, <<"C", "A">>, <<"A", "A">>}

MinOverlaps == {1, 4, DefaultMinOverlap}

Ceilings == {0, DefaultCeiling}

Init ==
    /\ strands \in Lists(PipelinePool, MaxScnReads)
    /\ allow_mis_matches \in 0..MaxMis
    /\ InitCommon

Next ==
    \/ Insert
    \/ StartLink
    \/ Link
    \/ Built
    \/ \E mo \in MinOverlaps, ceiling \in Ceilings : StartAssemble(mo, ceiling)
    \/ SkipOrigin
    \/ BeginWalk
    \/ WalkStep
    \/ StopWalk
    \/ KeepLongest
    \/ Return

Spec == Init /\ [][Next]_vars

(***************************************************************************)
(* Direct calls of TrieNode.search on the trie the insertions built.       *)
(***************************************************************************)
MaxTrieReads == 2

QueryPool == StringsUpTo({"A", "C"}, 0, MaxLen + 1)

InitTrie ==
    /\ strands \in Lists(ReadPool, MaxTrieReads)
    /\ allow_mis_matches \in 0..MaxMis
    /\ InitCommon

Probe(q) ==
    /\ pc = "link"
    /\ li = 0
    /\ query' = q
    /\ found' = search(trie, <<>>, q, allow_mis_matches)
    /\ pc' = "probed"
    /\ UNCHANGED <<strands, allow_mis_matches, trie, heap, vertices, si, li, asmVars>>

NextTrie == Insert \/ StartLink \/ (\E q \in QueryPool : Probe(q))

SpecTrie == InitTrie /\ [][NextTrie]_vars

(***************************************************************************)
(* Collections that break the input contract: characters outside          *)
(* {A,C,G,T}, and the empty collection.                                    *)
(***************************************************************************)
MaxBadReads == 2

BadPool == StringsUpTo({"A", "X"}, 1, MaxLen)

InitBad ==
    /\ strands \in Lists(BadPool, MaxBadReads)
    /\ allow_mis_matches \in 0..MaxMis
    /\ InitCommon

SpecBad == InitBad /\ [][NextBuild]_vars

(***************************************************************************)
(* Vocabulary of the properties.                                           *)
(***************************************************************************)
Registered == {vertices[j] : j \in 1..Len(vertices)}

SeqOf(v) == heap[v].sequence

EdgesOf(v) == heap[v].connected_vertices

Reads == {strands[j] : j \in 1..Len(strands)}

\* a is the beginning of b
IsPrefix(a, b) == Len(a) <= Len(b) /\ SubSeq(b, 1, Len(a)) = a

\* The positions at which two strings of one length differ
Mismatches(a, b) == Cardinality({j \in 1..Len(a) : a[j] # b[j]})

\* The last n symbols of s
LastOf(s, n) == SubSeq(s, Len(s) - n + 1, Len(s))

\* floor(log4(n)) for n >= 1
FloorLog4(n) == CHOOSE j \in 0..n : 4^j <= n /\ n < 4^(j + 1)

\* The offsets the builder may use for a vertex of length len among n reads
Window(len, n) == {i \in 1..len : i < len - 2 * FloorLog4(n)}

Min(S) == CHOOSE x \in S : \A y \in S : x <= y

\* The earliest-registered vertex whose sequence begins with s, or None
Earliest(s) ==
    LET js == {j \in 1..Len(vertices) : IsPrefix(s, SeqOf(vertices[j]))}
    IN  IF js = {} THEN None ELSE vertices[Min(js)]

(***************************************************************************)
(* C1.  After load_from_strands, every edge (source, target, overlap_len)  *)
(* has 1 <= overlap_len <= min(len(source), len(target)) and the last      *)
(* overlap_len symbols of source EQUAL the first overlap_len symbols of    *)
(* target, for any allow_mis_matches >= 0.  This is the claim as stated;   *)
(* a build with allow_mis_matches > 0 refutes it.                          *)
(***************************************************************************)
OverlapInRange(v, e) ==
    /\ 1 <= e[2]
    /\ e[2] <= Len(SeqOf(v))
    /\ e[2] <= Len(SeqOf(e[1]))

C1_EdgesOverlapExactly ==
    pc = "built" =>
        \A v \in Registered : \A j \in 1..Len(EdgesOf(v)) :
            LET e == EdgesOf(v)[j] IN
            /\ OverlapInRange(v, e)
            /\ LastOf(SeqOf(v), e[2]) = SubSeq(SeqOf(e[1]), 1, e[2])

(***************************************************************************)
(* C1 as amended.  After load_from_strands, every edge has                 *)
(* 1 <= overlap_len <= min(len(source), len(target)), and the last         *)
(* overlap_len symbols of source differ from the first overlap_len symbols *)
(* of target in at most allow_mis_matches positions (so they are equal     *)
(* when allow_mis_matches = 0).                                            *)
(***************************************************************************)
C1_EdgesOverlapWithinBudget ==
    pc = "built" =>
        \A v \in Registered : \A j \in 1..Len(EdgesOf(v)) :
            LET e == EdgesOf(v)[j] IN
            /\ OverlapInRange(v, e)
            /\ Mismatches(LastOf(SeqOf(v), e[2]), SubSeq(SeqOf(e[1]), 1, e[2]))
                   <= allow_mis_matches

\* C1 witness: a built graph holding an edge whose overlap has a mismatch.
C1_Witness ==
    /\ pc = "built"
    /\ allow_mis_matches = 1
    /\ \E v \in Registered : \E j \in 1..Len(EdgesOf(v)) :
           LET e == EdgesOf(v)[j] IN
           /\ e[2] >= 2
           /\ Mismatches(LastOf(SeqOf(v), e[2]), SubSeq(SeqOf(e[1]), 1, e[2])) = 1

(***************************************************************************)
(* C2.  reads = [ACGTACGT, GTACGTAC, CGTACGTA], allow_mis_matches = 0,     *)
(* min_overlap = 4 and the default ceiling 40: get_sequenced_result        *)
(* returns the 10-symbol sequence ACGTACGTAC.                              *)
(***************************************************************************)
ScenarioExpected == <<"A", "C", "G", "T", "A", "C", "G", "T", "A", "C">>

ScenarioRun ==
    /\ strands = ScenarioReads
    /\ allow_mis_matches = 0
    /\ min_overlap = 4
    /\ in_coming_links_min = DefaultCeiling

C2_ScenarioAssembly == (pc = "done" /\ ScenarioRun) => max_seq = ScenarioExpected

(***************************************************************************)
(* C3.  After the insertion loop, the number of registered vertices is the *)
(* number of distinct read strings: each distinct read has exactly one     *)
(* vertex whose sequence is that read.                                     *)
(***************************************************************************)
C3_VertexPerDistinctRead ==
    pc \in {"link", "built"} =>
        /\ Len(vertices) = Cardinality(Reads)
        /\ \A r \in Reads :
               Cardinality({j \in 1..Len(vertices) : SeqOf(vertices[j]) = r}) = 1

(***************************************************************************)
(* C4.  For every inserted read r, search(r, 0) returns the vertex whose   *)
(* stored sequence is exactly r.                                           *)
(***************************************************************************)
C4_SearchFindsOwnVertex ==
    (pc = "probed" /\ allow_mis_matches = 0 /\ query \in Reads) =>
        /\ found \in Registered
        /\ SeqOf(found) = query

(***************************************************************************)
(* C5.  Bounded-mismatch lookup as stated: if some inserted read's first   *)
(* len(q) symbols differ from q in at most k positions then search(q, k)   *)
(* returns a vertex; and search(q, 0) returns a vertex only if q is the    *)
(* prefix of an inserted read.                                             *)
(***************************************************************************)
WithinBudgetOf(q, r, k) ==
    Len(q) <= Len(r) /\ Mismatches(SubSeq(r, 1, Len(q)), q) <= k

C5_LookupComplete ==
    pc = "probed" =>
        /\ (\E r \in Reads : WithinBudgetOf(query, r, allow_mis_matches))
               => found # None
        /\ (allow_mis_matches = 0 /\ found # None)
               => \E r \in Reads : IsPrefix(query, r)

(***************************************************************************)
(* C5 as amended.  search(q, k) returns a vertex only if that vertex's     *)
(* first len(q) symbols differ from q in at most k positions; it returns a *)
(* vertex whenever q is exactly the prefix of an inserted read; and with   *)
(* k = 0 it returns a vertex exactly when q is such a prefix.  (A read     *)
(* within k substitutions of q can be missed: a substitution is tried only *)
(* where the query's own symbol has no child.)                             *)
(***************************************************************************)
C5_LookupSound ==
    pc = "probed" =>
        /\ found # None =>
               /\ found \in Registered
               /\ WithinBudgetOf(query, SeqOf(found), allow_mis_matches)
        /\ (\E r \in Reads : IsPrefix(query, r)) => found # None
        /\ (allow_mis_matches = 0 /\ found # None)
               => \E r \in Reads : IsPrefix(query, r)

\* C5 witness: a query that needs one substitution is answered with k = 1.
C5_Witness ==
    /\ pc = "probed"
    /\ allow_mis_matches = 1
    /\ found # None
    /\ Len(query) >= 2
    /\ \A r \in Reads : ~IsPrefix(query, r)

(***************************************************************************)
(* C6.  As stated: when search reaches a node that has no child for the    *)
(* next query symbol and no budget remains, it returns none, unless the    *)
(* trie path ends at that node and the node anchors a vertex, in which     *)
(* case it returns that vertex.                                            *)
(***************************************************************************)
\* The node the exact walk along q stops at: the longest prefix of q that
\* is a path of the trie.
StopNode(q) ==
    LET ns == {n \in 0..Len(q) : SubSeq(q, 1, n) \in DOMAIN trie}
    IN  SubSeq(q, 1, CHOOSE n \in ns : \A m \in ns : m <= n)

IsLeaf(p) == \A c \in SymbolSet : Append(p, c) \notin DOMAIN trie

StuckWithoutBudget ==
    /\ pc = "probed"
    /\ allow_mis_matches = 0
    /\ StopNode(query) # query

C6_AnchorAtPathEnd ==
    StuckWithoutBudget =>
        IF IsLeaf(StopNode(query)) /\ trie[StopNode(query)].extra # None
        THEN found = trie[StopNode(query)].extra
        ELSE found = None

(***************************************************************************)
(* C6 as amended.  When search reaches a node that has no child for the    *)
(* next query symbol and no budget remains, it returns none, also when the *)
(* trie path ends at that node and the node anchors a vertex.              *)
(***************************************************************************)
C6_NoneWithoutBudget == StuckWithoutBudget => found = None

\* C6 witness: the query outruns a stored path whose last node anchors a
\* vertex, and the answer is none.
C6_Witness ==
    /\ StuckWithoutBudget
    /\ StopNode(query) # <<>>
    /\ IsLeaf(StopNode(query))
    /\ trie[StopNode(query)].extra # None
    /\ found = None

(***************************************************************************)
(* C7.  load_from_strands on malformed input (an empty collection, a read  *)
(* shorter than the search window, a symbol outside {A,C,G,T}) ends in an  *)
(* error, and adds no node, counter or vertex for the offending read.      *)
(***************************************************************************)
BadSymbol(r) == \E j \in 1..Len(r) : r[j] \notin SymbolSet

ShorterThanWindow(r, n) == Window(Len(r), n) = {}

Malformed(rs) ==
    \/ rs = <<>>
    \/ \E j \in 1..Len(rs) : BadSymbol(rs[j]) \/ ShorterThanWindow(rs[j], Len(rs))

\* The trie, heap and vertex list after the first n reads, by the loop of
\* lines 152-157.
RECURSIVE Inserted(_, _)
Inserted(rs, n) ==
    IF n = 0 THEN [trie |-> EmptyTrie, heap |-> <<>>, vertices |-> <<>>]
    ELSE LET b == Inserted(rs, n - 1)
             r == insert_strand(b.trie, b.heap, <<>>, rs[n], None, FALSE)
         IN  IF r.ret = None
             THEN [trie |-> r.trie, heap |-> r.heap, vertices |-> b.vertices]
             ELSE [trie |-> r.trie,
                   heap |-> [r.heap EXCEPT ![r.ret].sequence = rs[n]],
                   vertices |-> Append(b.vertices, r.ret)]

\* The first read that breaks the contract, or 0
FirstBad(rs) ==
    LET js == {j \in 1..Len(rs) : BadSymbol(rs[j]) \/ ShorterThanWindow(rs[j], Len(rs))}
    IN  IF js = {} THEN 0 ELSE Min(js)

C7_MalformedInputRejected ==
    (Malformed(strands) /\ pc \in {"built", "raised"}) =>
        /\ pc = "raised"
        /\ FirstBad(strands) > 0
        /\ LET good == Inserted(strands, FirstBad(strands) - 1)
           IN  /\ trie = good.trie
               /\ heap = good.heap
               /\ vertices = good.vertices

(***************************************************************************)
(* C8.  get_sequenced_result returns the greedy-walk string of some        *)
(* candidate origin (a vertex whose summed incoming overlap is at most the *)
(* ceiling), no candidate's greedy-walk string is longer than the result,  *)
(* and with no candidate the result is the empty string, without error.    *)
(***************************************************************************)
\* The summed overlap of the edges into v
InWeight(v) ==
    LET all == UNION {{<<u, j>> : j \in 1..Len(EdgesOf(u))} : u \in Registered}
        es == {x \in all : EdgesOf(x[1])[x[2]][1] = v}
        RECURSIVE SumOf(_)
        SumOf(S) == IF S = {} THEN 0
                    ELSE LET x == CHOOSE y \in S : TRUE
                         IN  EdgesOf(x[1])[x[2]][2] + SumOf(S \ {x})
    IN  SumOf(es)

Candidates == {v \in Registered : InWeight(v) <= in_coming_links_min}

\* What the walk appends after arriving at v with `taken` steps behind it
RECURSIVE WalkTail(_, _)
WalkTail(v, taken) ==
    IF EdgesOf(v) = <<>> \/ taken >= Len(vertices) THEN <<>>
    ELSE LET e == EdgesOf(v)[1] IN
         IF e[2] < min_overlap THEN <<>>
         ELSE SubSeq(SeqOf(e[1]), e[2] + 1, Len(SeqOf(e[1]))) \o WalkTail(e[1], taken + 1)

GreedyWalk(v) == SeqOf(v) \o WalkTail(v, 0)

C8_LongestCandidateWalk ==
    /\ pc # "raised"
    /\ pc = "done" =>
          IF Candidates = {} THEN max_seq = <<>>
          ELSE /\ \E c \in Candidates : max_seq = GreedyWalk(c)
               /\ \A c \in Candidates : Len(GreedyWalk(c)) <= Len(max_seq)

\* C8 witness: several candidates with walks of different lengths, and the
\* result is a walk of more than one read.
C8_Witness ==
    /\ pc = "done"
    /\ Cardinality(Candidates) >= 2
    /\ \E c \in Candidates : Len(GreedyWalk(c)) < Len(max_seq)
    /\ \E c \in Candidates : max_seq = GreedyWalk(c) /\ Len(max_seq) > Len(SeqOf(c))

\* C8 second case reached: vertices exist and none is a candidate.
C8_NoCandidateReached == pc = "done" /\ vertices # <<>> /\ Candidates = {}

(***************************************************************************)
(* C9.  As stated: after a build with allow_mis_matches = 0, if some other *)
(* vertex's sequence begins with the suffix of v at an offset i inside the *)
(* window, v has exactly one outgoing edge, of overlap len(v) - i for the  *)
(* smallest such i; v has no edge only when no other vertex overlaps it    *)
(* inside the window; and no vertex has an edge to itself.                 *)
(***************************************************************************)
OverlapOffsets(v) ==
    {i \in Window(Len(SeqOf(v)), Len(strands)) :
        \E w \in Registered \ {v} : IsPrefix(Suffix(SeqOf(v), i), SeqOf(w))}

C9_BestOverlapOfAnyVertex ==
    (pc = "built" /\ allow_mis_matches = 0) =>
        \A v \in Registered :
            /\ \A j \in 1..Len(EdgesOf(v)) : EdgesOf(v)[j][1] # v
            /\ IF OverlapOffsets(v) = {} THEN EdgesOf(v) = <<>>
               ELSE /\ Len(EdgesOf(v)) = 1
                    /\ EdgesOf(v)[1][2] = Len(SeqOf(v)) - Min(OverlapOffsets(v))

(***************************************************************************)
(* C9 as amended.  After a build with allow_mis_matches = 0, call an       *)
(* offset i inside the window of v usable when the earliest-registered     *)
(* vertex whose sequence begins with the suffix of v at i exists and is    *)
(* not v.  If v has a usable offset it has exactly one outgoing edge, to   *)
(* that earliest vertex for the smallest usable i, of overlap len(v) - i;  *)
(* otherwise v has no outgoing edge; and no vertex has an edge to itself.  *)
(***************************************************************************)
UsableOffsets(v) ==
    {i \in Window(Len(SeqOf(v)), Len(strands)) :
        Earliest(Suffix(SeqOf(v), i)) \notin {None, v}}

C9_BestAnchoredOverlap ==
    (pc = "built" /\ allow_mis_matches = 0) =>
        \A v \in Registered :
            /\ \A j \in 1..Len(EdgesOf(v)) : EdgesOf(v)[j][1] # v
            /\ IF UsableOffsets(v) = {} THEN EdgesOf(v) = <<>>
               ELSE LET i == Min(UsableOffsets(v)) IN
                    EdgesOf(v) = << <<Earliest(Suffix(SeqOf(v), i)), Len(SeqOf(v)) - i>> >>

\* C9 witness: a vertex answers one of its own suffixes itself although a
\* later read begins with that suffix too; the offset is skipped, and the
\* vertex links at a later offset or not at all.
C9_Witness ==
    /\ pc = "built"
    /\ allow_mis_matches = 0
    /\ \E v \in Registered : \E i \in OverlapOffsets(v) :
           /\ Earliest(Suffix(SeqOf(v), i)) = v
           /\ \/ EdgesOf(v) = <<>>
              \/ i < Len(SeqOf(v)) - EdgesOf(v)[1][2]

\* C9, the window among four reads (two offsets shorter): one vertex links
\* inside it, another is left without an edge because the only offsets
\* with an answer lie outside it.
C9_WindowReached ==
    /\ pc = "built"
    /\ allow_mis_matches = 0
    /\ Len(strands) = 4
    /\ \E v \in Registered : EdgesOf(v) # <<>>
    /\ \E v \in Registered :
           /\ EdgesOf(v) = <<>>
           /\ \E i \in 1..(Len(SeqOf(v)) - 1) :
                  Earliest(Suffix(SeqOf(v), i)) \notin {None, v}

(***************************************************************************)
(* C10.  The greedy walk from a candidate origin advances at most |V|      *)
(* times and then reaches STOPPED; it stops as soon as the current vertex  *)
(* has no outgoing edge or its edge's overlap is below min_overlap; and    *)
(* get_sequenced_result terminates, also on graphs with cycles: until it   *)
(* has returned a step is always possible, and every step decreases a      *)
(* natural number.                                                         *)
(***************************************************************************)
StopsAtOnce ==
    (/\ pc = "walking"
     /\ \/ EdgesOf(current) = <<>>
        \/ EdgesOf(current)[1][2] < min_overlap)
        => (~ENABLED WalkStep /\ ENABLED StopWalk)

StoppedForAReason ==
    pc = "stopped" =>
        \/ EdgesOf(current) = <<>>
        \/ EdgesOf(current)[1][2] < min_overlap
        \/ walk_i = Len(vertices)

Assembling == pc \in {"select", "walking", "stopped"}

\* The steps an origin can take: BeginWalk, |V| times WalkStep, StopWalk,
\* KeepLongest.
StepsPerOrigin == Len(vertices) + 3

\* A bound on the steps get_sequenced_result still takes
StepsLeft ==
    CASE pc = "select"  -> (Len(vertices) - oi) * StepsPerOrigin + 1
      [] pc = "walking" -> (Len(vertices) - oi - 1) * StepsPerOrigin + 1
                               + 2 + (Len(vertices) - walk_i)
      [] pc = "stopped" -> (Len(vertices) - oi - 1) * StepsPerOrigin + 1 + 1
      [] OTHER -> 0

C10_WalkBoundedAndStops ==
    /\ [](walk_i <= Len(vertices))
    /\ []StopsAtOnce
    /\ []StoppedForAReason
    /\ [](Assembling => (StepsLeft > 0 /\ ENABLED Next))
    /\ [][Assembling => StepsLeft' < StepsLeft]_vars

\* C10 witness: a walk around a cycle stopped by the step bound alone.
C10_Witness ==
    /\ pc = "stopped"
    /\ walk_i = Len(vertices)
    /\ EdgesOf(current) # <<>>
    /\ EdgesOf(current)[1][2] >= min_overlap
    /\ Len(vertices) >= 2

====
